---- MODULE Spec2Model ----
(***************************************************************************)
(* Model of hackPyrateBus/W25Q64FV.py: the W25Q64FV flash driver layered   *)
(* on the Bus Pirate SPI transport.  Every driver method is a small        *)
(* sequential program; each action below is one step of one method, cut    *)
(* at the calls of self.write_then_read, where the transport may fail.     *)
(* The transport is a recording fake: it logs every invocation in `calls`, *)
(* answers a read command with the flash contents at the header's address, *)
(* answers the status opcodes with the two status registers, and may       *)
(* raise instead of answering.                                             *)
(***************************************************************************)
EXTENDS Integers, Sequences, FiniteSets, TLC

(* ---------------- class constants (lines 6-12) ---------------- *)
PAGE_SIZE == 256
MAX_WORDS == PAGE_SIZE * 32768
COMMAND_READ == 3
COMMAND_READ_STATUS_REG_1 == 5
COMMAND_READ_STATUS_REG_2 == 53
COMMAND_WRITE_ENABLE == 6
\* the literal 4096 of read(): the transport's largest single read
CHUNK == 4096

(* ---------------- bounds of the model ---------------- *)
\* in-range requests span at most MaxChunks full chunks plus one byte
MaxChunks == 2
MaxAmount == MaxChunks * CHUNK + 1

\* arguments tried for addr
Addrs == {-1, 0, 1, 65535, MAX_WORDS - CHUNK - 1, MAX_WORDS - CHUNK,
          MAX_WORDS, MAX_WORDS + 1}
\* arguments tried for amount: around every chunk boundary, and two huge ones
Amounts == {n \in {k * CHUNK + d : k \in 0..MaxChunks, d \in {-1, 0, 1}} : n >= 0}
           \cup {MAX_WORDS, MAX_WORDS + 1}
\* lengths of the data handed to store
DataLens == {0, 1, PAGE_SIZE, PAGE_SIZE + 1}
\* values the two status registers may hold
RegVals == {0, 2, 255}

(* ---------------- the device behind the transport ---------------- *)
\* content of the flash cell at address a: a pattern that differs between
\* neighbouring cells, between pages and between 4096-byte chunks
Flash(a) == (a + (a \div PAGE_SIZE)) % 256

VARIABLES
    pc,         \* position of the running method
    op,         \* the method that was called
    argAddr,    \* addr as passed by the caller
    argAmount,  \* amount as passed by the caller (len(data) for store)
    addr,       \* local addr of read, advanced by the loop
    amount,     \* local amount of read, decreased by the loop
    res,        \* local res of read
    r,          \* local r of status_registers
    ret,        \* what the caller received
    err,        \* the exception that reached the caller
    calls,      \* the transport's log of write_then_read invocations
    failedAt,   \* index in calls of the invocation that raised, 0 if none
    sr1, sr2    \* the device's status registers

vars == <<pc, op, argAddr, argAmount, addr, amount, res, r, ret, err, calls,
          failedAt, sr1, sr2>>

NoReturn == [kind |-> "unset", val |-> <<>>]
ReturnNone == [kind |-> "None", val |-> <<>>]
ReturnBytes(b) == [kind |-> "bytes", val |-> b]

(* ---------------- pure helpers of the driver ---------------- *)
\* int.to_bytes(3, 'big') raises OverflowError outside 0 .. 2^24 - 1
CanToBytes3(a) == a >= 0 /\ a < 16777216
\* variant: the address bytes in little-endian order
ToBytes3Little(a) == <<a % 256, (a \div 256) % 256, (a \div 65536) % 256>>
ToBytes3(a) == <<(a \div 65536) % 256, (a \div 256) % 256, a % 256>>

\* header = [self.COMMAND_READ] + list(addr.to_bytes(3, 'big'))
Header(a) == <<COMMAND_READ>> \o ToBytes3(a)

\* variant: the range check forgets the amount
InRangeAddrOnly(a, n) == ~(a > MAX_WORDS)

\* if addr + amount > self.MAX_WORDS: raise ValueError
InRange(a, n) == ~(a + n > MAX_WORDS)

\* variant: the loop also runs when exactly one chunk is left
LoopCondInclusive(n) == n >= CHUNK

\* while amount > 4096
LoopCond(n) == n > CHUNK

(* ---------------- the transport ---------------- *)
Call(wl, rl, p) == [write_len |-> wl, read_len |-> rl, payload |-> p]

\* the bytes the transport hands back for one successful transaction
WriteThenRead(wl, rl, p) ==
    IF p[1] = COMMAND_READ
    THEN LET a == p[2] * 65536 + p[3] * 256 + p[4]
         IN [i \in 1..rl |-> Flash(a + i - 1)]
    ELSE IF p[1] = COMMAND_READ_STATUS_REG_1 THEN [i \in 1..rl |-> sr1]
    ELSE IF p[1] = COMMAND_READ_STATUS_REG_2 THEN [i \in 1..rl |-> sr2]
    ELSE [i \in 1..rl |-> 0]

Raise(e) ==
    /\ pc' = "raised"
    /\ err' = e

Init ==
    /\ pc = "idle"
    /\ op = "none"
    /\ argAddr = 0
    /\ argAmount = 0
    /\ addr = 0
    /\ amount = 0
    /\ res = <<>>
    /\ r = <<>>
    /\ ret = NoReturn
    /\ err = "none"
    /\ calls = <<>>
    /\ failedAt = 0
    /\ sr1 \in RegVals
    /\ sr2 \in RegVals

(* ---------------- read (lines 82-98) ---------------- *)
\* entry of read: the range check and res = []
Read ==
    /\ pc = "idle"
    /\ \E a \in Addrs, n \in Amounts :
        /\ n <= MaxAmount \/ a + n > MAX_WORDS
        /\ op' = "read"
        /\ argAddr' = a
        /\ argAmount' = n
        /\ addr' = a
        /\ amount' = n
        /\ IF InRange(a, n)
           THEN /\ pc' = "read_while"
                /\ err' = err
           ELSE Raise("ValueError")
    /\ res' = <<>>
    /\ UNCHANGED <<r, ret, calls, failedAt, sr1, sr2>>

\* variant: the loop asks for everything that is left in one transaction
ReadLoopWholeRemainder ==
    /\ pc = "read_while"
    /\ LoopCond(amount)
    /\ IF ~CanToBytes3(addr)
       THEN /\ Raise("OverflowError")
            /\ UNCHANGED <<addr, amount, res, calls, failedAt>>
       ELSE /\ calls' = Append(calls, Call(Len(Header(addr)), amount, Header(addr)))
            /\ \E ok \in BOOLEAN :
                IF ok
                THEN /\ res' = res \o WriteThenRead(Len(Header(addr)), amount, Header(addr))
                     /\ amount' = 0
                     /\ addr' = addr + amount
                     /\ UNCHANGED <<pc, err, failedAt>>
                ELSE /\ Raise("TransportError")
                     /\ failedAt' = Len(calls')
                     /\ UNCHANGED <<addr, amount, res>>
    /\ UNCHANGED <<op, argAddr, argAmount, r, ret, sr1, sr2>>

\* variant: a failed transaction is swallowed and the loop goes on
ReadLoopSwallow ==
    /\ pc = "read_while"
    /\ LoopCond(amount)
    /\ IF ~CanToBytes3(addr)
       THEN /\ Raise("OverflowError")
            /\ UNCHANGED <<addr, amount, res, calls, failedAt>>
       ELSE /\ calls' = Append(calls, Call(Len(Header(addr)), CHUNK, Header(addr)))
            /\ \E ok \in BOOLEAN :
                /\ IF ok
                   THEN /\ res' = res \o WriteThenRead(Len(Header(addr)), CHUNK, Header(addr))
                        /\ failedAt' = failedAt
                   ELSE /\ res' = res
                        /\ failedAt' = Len(calls')
                /\ amount' = amount - CHUNK
                /\ addr' = addr + CHUNK
                /\ UNCHANGED <<pc, err>>
    /\ UNCHANGED <<op, argAddr, argAmount, r, ret, sr1, sr2>>

\* variant: each chunk is put in front of the ones already read
ReadLoopPrepend ==
    /\ pc = "read_while"
    /\ LoopCond(amount)
    /\ IF ~CanToBytes3(addr)
       THEN /\ Raise("OverflowError")
            /\ UNCHANGED <<addr, amount, res, calls, failedAt>>
       ELSE /\ calls' = Append(calls, Call(Len(Header(addr)), CHUNK, Header(addr)))
            /\ \E ok \in BOOLEAN :
                IF ok
                THEN /\ res' = WriteThenRead(Len(Header(addr)), CHUNK, Header(addr)) \o res
                     /\ amount' = amount - CHUNK
                     /\ addr' = addr + CHUNK
                     /\ UNCHANGED <<pc, err, failedAt>>
                ELSE /\ Raise("TransportError")
                     /\ failedAt' = Len(calls')
                     /\ UNCHANGED <<addr, amount, res>>
    /\ UNCHANGED <<op, argAddr, argAmount, r, ret, sr1, sr2>>

\* one iteration of the while loop
ReadLoop ==
    /\ pc = "read_while"
    /\ LoopCond(amount)
    /\ IF ~CanToBytes3(addr)
       THEN /\ Raise("OverflowError")
            /\ UNCHANGED <<addr, amount, res, calls, failedAt>>
       ELSE /\ calls' = Append(calls, Call(Len(Header(addr)), CHUNK, Header(addr)))
            /\ \E ok \in BOOLEAN :
                IF ok
                THEN /\ res' = res \o WriteThenRead(Len(Header(addr)), CHUNK, Header(addr))
                     /\ amount' = amount - CHUNK
                     /\ addr' = addr + CHUNK
                     /\ UNCHANGED <<pc, err, failedAt>>
                ELSE /\ Raise("TransportError")
                     /\ failedAt' = Len(calls')
                     /\ UNCHANGED <<addr, amount, res>>
    /\ UNCHANGED <<op, argAddr, argAmount, r, ret, sr1, sr2>>

\* variant: no transaction is issued when nothing is left to read
ReadFinalSkipEmpty ==
    /\ pc = "read_while"
    /\ ~LoopCond(amount)
    /\ IF ~CanToBytes3(addr)
       THEN /\ Raise("OverflowError")
            /\ UNCHANGED <<res, ret, calls, failedAt>>
       ELSE IF amount = 0
       THEN /\ ret' = ReturnBytes(res)
            /\ pc' = "done"
            /\ UNCHANGED <<res, err, calls, failedAt>>
       ELSE /\ calls' = Append(calls, Call(Len(Header(addr)), amount, Header(addr)))
            /\ \E ok \in BOOLEAN :
                IF ok
                THEN /\ res' = res \o WriteThenRead(Len(Header(addr)), amount, Header(addr))
                     /\ ret' = ReturnBytes(res')
                     /\ pc' = "done"
                     /\ UNCHANGED <<err, failedAt>>
                ELSE /\ Raise("TransportError")
                     /\ failedAt' = Len(calls')
                     /\ UNCHANGED <<res, ret>>
    /\ UNCHANGED <<op, argAddr, argAmount, addr, amount, r, sr1, sr2>>

\* the transaction after the loop, and the return
ReadFinal ==
    /\ pc = "read_while"
    /\ ~LoopCond(amount)
    /\ IF ~CanToBytes3(addr)
       THEN /\ Raise("OverflowError")
            /\ UNCHANGED <<res, ret, calls, failedAt>>
       ELSE /\ calls' = Append(calls, Call(Len(Header(addr)), amount, Header(addr)))
            /\ \E ok \in BOOLEAN :
                IF ok
                THEN /\ res' = res \o WriteThenRead(Len(Header(addr)), amount, Header(addr))
                     /\ ret' = ReturnBytes(res')
                     /\ pc' = "done"
                     /\ UNCHANGED <<err, failedAt>>
                ELSE /\ Raise("TransportError")
                     /\ failedAt' = Len(calls')
                     /\ UNCHANGED <<res, ret>>
    /\ UNCHANGED <<op, argAddr, argAmount, addr, amount, r, sr1, sr2>>

(* ---------------- store (lines 125-141) ---------------- *)
\* store: the range check, res = [], and the first evaluation of
\* `while amount > 4096`, where amount is a local never assigned before
Store ==
    /\ pc = "idle"
    /\ \E a \in Addrs, n \in DataLens :
        /\ op' = "store"
        /\ argAddr' = a
        /\ argAmount' = n
        /\ addr' = a
        /\ IF InRange(a, n)
           THEN Raise("UnboundLocalError")
           ELSE Raise("ValueError")
    /\ res' = <<>>
    /\ UNCHANGED <<amount, r, ret, calls, failedAt, sr1, sr2>>

(* ---------------- status_registers (lines 156-160) ---------------- *)
StatusRegisters1 ==
    /\ pc = "idle"
    /\ op' = "status_registers"
    /\ calls' = Append(calls, Call(1, 1, <<COMMAND_READ_STATUS_REG_1>>))
    /\ \E ok \in BOOLEAN :
        IF ok
        THEN /\ r' = WriteThenRead(1, 1, <<COMMAND_READ_STATUS_REG_1>>)
             /\ pc' = "status_2"
             /\ UNCHANGED <<err, failedAt>>
        ELSE /\ Raise("TransportError")
             /\ failedAt' = Len(calls')
             /\ r' = r
    /\ UNCHANGED <<argAddr, argAmount, addr, amount, res, ret, sr1, sr2>>

\* variant: the second register is put in front of the first
StatusRegisters2Swapped ==
    /\ pc = "status_2"
    /\ calls' = Append(calls, Call(1, 1, <<COMMAND_READ_STATUS_REG_2>>))
    /\ \E ok \in BOOLEAN :
        IF ok
        THEN /\ r' = WriteThenRead(1, 1, <<COMMAND_READ_STATUS_REG_2>>) \o r
             /\ ret' = ReturnBytes(r')
             /\ pc' = "done"
             /\ UNCHANGED <<err, failedAt>>
        ELSE /\ Raise("TransportError")
             /\ failedAt' = Len(calls')
             /\ UNCHANGED <<r, ret>>
    /\ UNCHANGED <<op, argAddr, argAmount, addr, amount, res, sr1, sr2>>

StatusRegisters2 ==
    /\ pc = "status_2"
    /\ calls' = Append(calls, Call(1, 1, <<COMMAND_READ_STATUS_REG_2>>))
    /\ \E ok \in BOOLEAN :
        IF ok
        THEN /\ r' = r \o WriteThenRead(1, 1, <<COMMAND_READ_STATUS_REG_2>>)
             /\ ret' = ReturnBytes(r')
             /\ pc' = "done"
             /\ UNCHANGED <<err, failedAt>>
        ELSE /\ Raise("TransportError")
             /\ failedAt' = Len(calls')
             /\ UNCHANGED <<r, ret>>
    /\ UNCHANGED <<op, argAddr, argAmount, addr, amount, res, sr1, sr2>>

(* ---------------- write_enable (line 175) ---------------- *)
\* variant: the transaction asks for one byte back and returns it
WriteEnableReadsBack ==
    /\ pc = "idle"
    /\ op' = "write_enable"
    /\ calls' = Append(calls, Call(1, 1, <<COMMAND_WRITE_ENABLE>>))
    /\ \E ok \in BOOLEAN :
        IF ok
        THEN /\ ret' = ReturnBytes(WriteThenRead(1, 1, <<COMMAND_WRITE_ENABLE>>))
             /\ pc' = "done"
             /\ UNCHANGED <<err, failedAt>>
        ELSE /\ Raise("TransportError")
             /\ failedAt' = Len(calls')
             /\ ret' = ret
    /\ UNCHANGED <<argAddr, argAmount, addr, amount, res, r, sr1, sr2>>

WriteEnable ==
    /\ pc = "idle"
    /\ op' = "write_enable"
    /\ calls' = Append(calls, Call(1, 0, <<COMMAND_WRITE_ENABLE>>))
    /\ \E ok \in BOOLEAN :
        IF ok
        THEN /\ ret' = ReturnNone
             /\ pc' = "done"
             /\ UNCHANGED <<err, failedAt>>
        ELSE /\ Raise("TransportError")
             /\ failedAt' = Len(calls')
             /\ ret' = ret
    /\ UNCHANGED <<argAddr, argAmount, addr, amount, res, r, sr1, sr2>>

Next ==
    \/ Read
    \/ ReadLoop
    \/ ReadFinal
    \/ Store
    \/ StatusRegisters1
    \/ StatusRegisters2
    \/ WriteEnable

Spec == Init /\ [][Next]_vars

TypeOK ==
    /\ pc \in {"idle", "read_while", "status_2", "done", "raised"}
    /\ err \in {"none", "ValueError", "OverflowError", "UnboundLocalError", "TransportError"}
    /\ failedAt \in 0..Len(calls)
(* ======================= properties ======================= *)
Finished == pc \in {"done", "raised"}

\* a read whose arguments are non-negative and inside the flash
ValidRead ==
    /\ op = "read"
    /\ argAddr >= 0
    /\ argAmount >= 0
    /\ argAddr + argAmount <= MAX_WORDS

CeilDiv(n, d) == (n + d - 1) \div d

\* the address a logged read header carries, decoded big-endian
HeaderAddr(p) == p[2] * 65536 + p[3] * 256 + p[4]

\* the 4-byte read header for address a, spelled out
ExpectedHeader(a) == <<3, (a \div 65536) % 256, (a \div 256) % 256, a % 256>>

RECURSIVE SumReadLen(_)
SumReadLen(s) == IF s = <<>> THEN 0 ELSE s[1].read_len + SumReadLen(Tail(s))

\* C1: a valid read over a transport that does not fail returns exactly
\* amount bytes, and byte i of the result is the flash byte at addr + i.
C1_ReadReturnsFlashBytes ==
    (ValidRead /\ Finished /\ failedAt = 0) =>
        /\ pc = "done"
        /\ ret.kind = "bytes"
        /\ Len(ret.val) = argAmount
        /\ \A i \in 1..Len(ret.val) : ret.val[i] = Flash(argAddr + i - 1)

C1_Witness ==
    /\ ValidRead /\ pc = "done"
    /\ argAddr > 0
    /\ argAmount > 2 * CHUNK
    /\ Len(ret.val) = argAmount

\* C2: a read with addr + amount > MAX_WORDS fails with ValueError, and the
\* transport has recorded no invocation.
C2_OutOfRangeRaisesBeforeIO ==
    (op = "read" /\ argAddr + argAmount > MAX_WORDS) =>
        /\ pc = "raised"
        /\ err = "ValueError"
        /\ calls = <<>>
        /\ ret = NoReturn

C2_Witness ==
    /\ op = "read"
    /\ argAddr = MAX_WORDS /\ argAmount = 1
    /\ err = "ValueError"

\* C3: a valid read of more than 4096 bytes logs, call after call, write_len 4
\* and the header [0x03, A[23:16], A[15:8], A[7:0]] with A = addr + 4096 * k
\* for the k-th call, so the header addresses strictly increase; when it
\* returns, it has made ceil(amount / 4096) calls.
C3_ChunkCallsAndHeaders ==
    (ValidRead /\ argAmount > CHUNK) =>
        /\ \A k \in 1..Len(calls) :
            /\ calls[k].write_len = 4
            /\ calls[k].payload = ExpectedHeader(argAddr + CHUNK * (k - 1))
        /\ \A j, k \in 1..Len(calls) :
            j < k => HeaderAddr(calls[j].payload) < HeaderAddr(calls[k].payload)
        /\ pc = "done" => Len(calls) = CeilDiv(argAmount, CHUNK)

C3_Witness ==
    /\ ValidRead /\ pc = "done"
    /\ argAmount = 2 * CHUNK + 1
    /\ argAddr = 65535
    /\ Len(calls) = 3

\* C4: read(addr, 4096) makes exactly one transport call, asking for 4096
\* bytes, and no trailing call that asks for nothing.
C4_ExactlyOneChunkOneCall ==
    (ValidRead /\ argAmount = CHUNK) =>
        /\ Len(calls) <= 1
        /\ Finished =>
            /\ Len(calls) = 1
            /\ calls[1].read_len = CHUNK

C4_Witness ==
    /\ ValidRead /\ pc = "done"
    /\ argAmount = CHUNK
    /\ Len(calls) = 1

\* C5: status_registers asks for register 1 and then for register 2, one byte
\* written and one read each time, and returns the two answers in that order.
C5_StatusRegistersOrder ==
    (op = "status_registers") =>
        /\ Len(calls) <= 2
        /\ Len(calls) >= 1 => calls[1] = [write_len |-> 1, read_len |-> 1, payload |-> <<5>>]
        /\ Len(calls) >= 2 => calls[2] = [write_len |-> 1, read_len |-> 1, payload |-> <<53>>]
        /\ pc = "done" =>
            /\ Len(calls) = 2
            /\ ret = [kind |-> "bytes", val |-> <<sr1, sr2>>]

C5_Witness ==
    /\ op = "status_registers" /\ pc = "done"
    /\ sr1 # sr2
    /\ Len(ret.val) = 2

\* C6: write_enable makes exactly one transport call, write_len 1, read_len 0,
\* payload [0x06], and hands no data to the caller.
C6_WriteEnableOneCall ==
    (op = "write_enable") =>
        /\ calls = <<[write_len |-> 1, read_len |-> 0, payload |-> <<6>>]>>
        /\ ret.val = <<>>
        /\ pc = "done" => ret = ReturnNone

C6_Witness ==
    /\ op = "write_enable" /\ pc = "done"
    /\ Len(calls) = 1

\* C7: a store of non-empty data that fits in the flash completes, and a
\* write-enable transaction (payload [0x06]) has been issued for each
\* PAGE_SIZE chunk of the data.
C7_StoreIssuesWriteEnablePerPage ==
    (op = "store" /\ Finished /\ argAmount > 0 /\ argAddr + argAmount <= MAX_WORDS) =>
        /\ err = "none"
        /\ Cardinality({k \in 1..Len(calls) : calls[k].payload = <<6>>})
               = CeilDiv(argAmount, PAGE_SIZE)

\* C8: in a valid read no transport call asks for more than 4096 bytes, and
\* when the read returns the read_len values of its calls sum to amount.
C8_ReadLenBounded ==
    ValidRead =>
        /\ \A k \in 1..Len(calls) : calls[k].read_len <= 4096
        /\ pc = "done" => SumReadLen(calls) = argAmount

C8_Witness ==
    /\ ValidRead /\ pc = "done"
    /\ argAmount = 2 * CHUNK
    /\ Len(calls) = 2

\* C9: when a transport call of a read fails, the read ends with that
\* transport error, the failing call is the last one the transport sees, and
\* the caller receives no bytes.
C9_TransportFailureAborts ==
    (op = "read" /\ failedAt > 0) =>
        /\ pc = "raised"
        /\ err = "TransportError"
        /\ Len(calls) = failedAt
        /\ ret = NoReturn

C9_Witness ==
    /\ op = "read" /\ pc = "raised"
    /\ failedAt = 2
    /\ argAmount > 2 * CHUNK
    /\ Len(res) = CHUNK

\* C10: read(addr, 0) with 0 <= addr <= MAX_WORDS makes exactly one call, with
\* read_len 0 and the header of addr, and returns the empty byte sequence; the
\* last call of every valid read that returns asks for the 0..4096 bytes left
\* after the full chunks, at the address after them.
C10_FinalTransactionAlwaysIssued ==
    /\ (ValidRead /\ argAmount = 0) =>
        /\ Len(calls) <= 1
        /\ Finished =>
            calls = <<[write_len |-> 4, read_len |-> 0, payload |-> ExpectedHeader(argAddr)]>>
        /\ pc = "done" => ret = [kind |-> "bytes", val |-> <<>>]
    /\ (ValidRead /\ pc = "done") =>
        /\ Len(calls) >= 1
        /\ calls[Len(calls)].read_len \in 0..4096
        /\ calls[Len(calls)].read_len = argAmount - CHUNK * (Len(calls) - 1)
        /\ calls[Len(calls)].payload = ExpectedHeader(argAddr + CHUNK * (Len(calls) - 1))

C10_Witness ==
    /\ ValidRead /\ pc = "done"
    /\ argAmount = 0
    /\ argAddr = MAX_WORDS
    /\ Len(calls) = 1
====
